---- MODULE Spec2Model ----
(***************************************************************************)
(* Stack allocation of the Aero kernel (aero_kernel/src/utils/stack.rs):   *)
(* Stack::new_pinned / new_user_pinned / new_kernel / stack_top and the    *)
(* StackHelper cursor, over a frame allocator, a page-table mapper and a   *)
(* physical memory.                                                        *)
(*                                                                         *)
(* The kernel is built by `cargo build` without --release                  *)
(* (aero_build/src/main.rs), so integer overflow checks are on: an         *)
(* overflowing `-` or `+` panics. Addresses are scaled down: a page has    *)
(* PageSize bytes and the address space NumPages pages.                    *)
(***************************************************************************)
EXTENDS Integers, Sequences, FiniteSets, TLC

----------------------------------------------------------------------------
(* Bounds of the model *)

\* bytes in a page (Size4KiB, scaled down)
PageSize == 4
\* pages in the virtual address space
NumPages == 256
\* frames the frame allocator manages
NumFrames == 4
\* largest pinned stack requested, in pages
MaxStackPages == 2
\* page-table entries per last-level table (scaled down)
PagesPerTable == 2
\* largest kernel stack requested, in u64 slots
MaxKernelSlots == 2
\* places the heap can put a kernel stack
MaxHeapSlots == 2
\* calls made on one StackHelper
MaxOps == 4
MaxRetries == 1

(* Program constants *)

\* alignment of the kernel-stack heap allocation
KernelAlign == 256
\* core::mem::size_of::<u64>() and ::<u32>()
SizeOfU64 == 8
SizeOfU32 == 4

AddrSpace == NumPages * PageSize
Frames == 1 .. NumFrames
\* frame 0 backs a mapping that exists before the call; it is never free
AllFrames == 0 .. NumFrames

\* result of an arithmetic operation that panicked
Overflow == -1
NoFrame == -1
NoAddr == -1

Min(S) == CHOOSE x \in S : \A y \in S : x <= y

----------------------------------------------------------------------------
(* Inputs *)

\* first page wholly above the largest stack that ends in it
BasePage == MaxStackPages + 1
\* a page-end address, a page-aligned one and one inside a page; the bytes
\* [stack_address - (stack_size - 1), stack_address + 1] of every request are
\* addresses of the address space
StackAddrs == {BasePage * PageSize - 1, BasePage * PageSize, BasePage * PageSize + 1}
StackSizes == {k * PageSize : k \in 0 .. MaxStackPages}
CallerFlags == {{}, {"USER_ACCESSIBLE"}, {"GLOBAL"}}
KernelSizes == {k * SizeOfU64 : k \in 1 .. MaxKernelSlots}
\* what alloc_zeroed can return: addresses aligned to KernelAlign
HeapPtrs == {k * KernelAlign : k \in 1 .. MaxHeapSlots}
\* skip_by arguments: an odd count, and one larger than any cell value
SkipAmounts == {3, AddrSpace - 1}
\* size_of::<T>() of the types offset::<T>() is called with
SlotSizes == {SizeOfU64, SizeOfU32}

----------------------------------------------------------------------------
VARIABLES
  free,     \* FRAME_ALLOCATOR: the frames it can still hand out
  tables,   \* offset_table: the last-level page tables that exist
  huge,     \* offset_table: tables whose parent entry maps a huge page
  mapped,   \* offset_table: page -> [frame, flags] of the mapped pages
  unflushed,\* pages mapped whose translation has not been flushed yet
  phys,     \* physical memory: frame -> offset -> byte (0, or 1 for stale data)
  pc,       \* position in the constructor being run
  call,     \* the call being run: arguments, locals and what it has done
  result,   \* what the last call returned
  stack,    \* the Stack the last call built
  heap,     \* the heap allocation behind a kernel stack
  tops,     \* the values stack_top() has returned for `stack`
  helper,   \* StackHelper: "none", "live", or "panicked"
  ptr,      \* StackHelper: the u64 cell *self.ptr
  t0,       \* the value of the cell when StackHelper::new took it
  ops,      \* the calls made on the StackHelper, in order
  slots,    \* the slots offset::<T>() returned, in order
  mem       \* the bytes written through those slots: address -> value

svars == <<free, tables, huge, mapped, unflushed, phys, pc, call, result, stack, heap, tops>>
cvars == <<helper, ptr, t0, ops, slots, mem>>
vars == <<svars, cvars>>

----------------------------------------------------------------------------
(* Values *)

NoErr == [tag |-> "none", frame |-> NoFrame]
FrameAllocationFailed == [tag |-> "FrameAllocationFailed", frame |-> NoFrame]
ParentEntryHugePage == [tag |-> "ParentEntryHugePage", frame |-> NoFrame]
PageAlreadyMapped(f) == [tag |-> "PageAlreadyMapped", frame |-> f]

NoStack == [stack_start |-> NoAddr, stack_size |-> 0]
NoHeap == [base |-> NoAddr, size |-> 0]
NoResult == [kind |-> "None", err |-> NoErr]
Ok == [kind |-> "Ok", err |-> NoErr]
Err(e) == [kind |-> "Err", err |-> e]
Panic == [kind |-> "Panic", err |-> NoErr]

StalePage == [o \in 0 .. PageSize - 1 |-> 1]
ZeroPage == [o \in 0 .. PageSize - 1 |-> 0]

NoCall ==
  [via |-> "none", stack_address |-> NoAddr, stack_size |-> 0, flags |-> {},
   start_addr |-> NoAddr, end_addr |-> NoAddr, page |-> 0, end_page |-> 0,
   frame |-> NoFrame, taken |-> <<>>, pt_taken |-> <<>>, done |-> <<>>,
   flushed |-> <<>>, retry |-> 0, earlier |-> <<>>,
   alloc_calls |-> 0, map_calls |-> 0, failed_at |-> "none", callee_err |-> NoErr,
   zeroed |-> FALSE, entry_mapped |-> <<>>, entry_free |-> {},
   entry_phys |-> <<>>]

----------------------------------------------------------------------------
(* Arithmetic of the build: overflow checks are on *)

\* usize/u64 `a - b`, and VirtAddr - usize (checked_sub(..).unwrap())
CheckedSub(a, b) == IF b > a THEN Overflow ELSE a - b
\* VirtAddr + usize
CheckedAdd(a, b) == IF a + b >= AddrSpace THEN Overflow ELSE a + b

\* Page::containing_address
containing_address(addr) == addr \div PageSize
TableOf(page) == page \div PagesPerTable

----------------------------------------------------------------------------
(* Stack::new_pinned, line by line *)

start_addr_Exclusive(stack_address, stack_size) ==
  IF stack_size = 0 THEN Overflow ELSE CheckedSub(stack_address, stack_size)

\* let start_addr = stack_address - (stack_size - 1);
start_addr(stack_address, stack_size) ==
  LET n == CheckedSub(stack_size, 1)
  IN IF n = Overflow THEN Overflow ELSE CheckedSub(stack_address, n)

\* let end_addr = stack_address;
end_addr(stack_address, stack_size) == stack_address

MapFlags_NoNX(flags) == {"PRESENT", "WRITABLE"} \cup flags

\* PRESENT | NO_EXECUTE | WRITABLE | flags
MapFlags(flags) == {"PRESENT", "NO_EXECUTE", "WRITABLE"} \cup flags

UserFlags_None == {}

\* the flags new_user_pinned passes on
UserFlags == {"USER_ACCESSIBLE"}

\* FRAME_ALLOCATOR.allocate_frame(): a free frame, or None
allocate_frame(fr) == IF fr = {} THEN NoFrame ELSE Min(fr)

\* offset_table.map_to(page, frame, flags, &mut FRAME_ALLOCATOR): walks to the
\* last-level table, creating it with a frame of the allocator when its parent
\* entry is unused, then binds the page unless it is bound already.
map_to(page, frame, flags) ==
  LET tbl == TableOf(page)
      unused == tbl \notin tables /\ tbl \notin huge
      g == allocate_frame(free)
      base == [err |-> NoErr, tables |-> tables, free |-> free, mapped |-> mapped,
               pt |-> NoFrame]
  IN IF unused /\ g = NoFrame THEN [base EXCEPT !.err = FrameAllocationFailed]
     ELSE IF tbl \in huge THEN [base EXCEPT !.err = ParentEntryHugePage]
     ELSE LET made == IF unused
                      THEN [base EXCEPT !.tables = tables \cup {tbl},
                                        !.free = free \ {g}, !.pt = g]
                      ELSE base
          IN IF page \in DOMAIN mapped
             THEN [made EXCEPT !.err = PageAlreadyMapped(frame)]
             ELSE [made EXCEPT !.mapped =
                     [p \in DOMAIN mapped \cup {page} |->
                        IF p = page THEN [frame |-> frame, flags |-> flags]
                        ELSE mapped[p]]]

Propagate_Collapsed(e) == FrameAllocationFailed

\* the error `?` hands to the caller of new_pinned
Propagate(e) == e

UnwindMapped_Rollback(m, c) ==
  [p \in DOMAIN m \ {c.done[i] : i \in 1 .. Len(c.done)} |-> m[p]]

UnwindFree_GiveBack(fr, c) == IF c.frame = NoFrame THEN fr ELSE fr \cup {c.frame}

\* the mapping and the allocator as the early return of `?` leaves them:
\* new_pinned has no cleanup, nothing is unmapped and no frame is given back
UnwindMapped(m, c) == m
UnwindFree(fr, c) == fr

FlushPage_Ignored(u, page) == u

\* MapperFlush::flush(): the translation of the page is invalidated
FlushPage(u, page) == u \ {page}

\* memset(dst, 0x00, n): the addresses it writes
memset_range(dst, n) == {a \in dst .. dst + n - 1 : TRUE}

ZeroFillRange_Short(c) == memset_range(c.start_addr, c.stack_size - 1)

\* memset(start_addr.as_mut_ptr(), 0x00, stack_size)
ZeroFillRange(c) == memset_range(c.start_addr, c.stack_size)

\* physical memory after writing a zero to every address of R through the mapping
WriteZero(R) ==
  [f \in AllFrames |->
     [o \in 0 .. PageSize - 1 |->
        IF \E a \in R : /\ containing_address(a) \in DOMAIN mapped
                        /\ mapped[containing_address(a)].frame = f
                        /\ a % PageSize = o
        THEN 0 ELSE phys[f][o]]]

stack_top_Upward(s) == s.stack_start

\* Stack::stack_top on x86_64: self.stack_start + self.stack_size
stack_top(s) == CheckedAdd(s.stack_start, s.stack_size)

skip_by_Up(p, by) == p + by

\* StackHelper::skip_by: *self.ptr -= by, a checked u64 subtraction
skip_by(p, by) == CheckedSub(p, by)

offset_Before(before, after) == before

\* StackHelper::offset: &mut *(*self.ptr as *mut T), the cell read after skip_by
offset(before, after) == after

\* stack.sub(stack_size) in new_kernel: pointer arithmetic that leaves the
\* allocation, which the language leaves undefined; the build computes the
\* wrapping difference
sub_outcomes(allocation, n) == {(allocation - n) % AddrSpace}

----------------------------------------------------------------------------
(* Initial states *)

\* a mapping that exists before the call, of a page the stacks can cover
PreMapped(p) == [q \in {p} |-> [frame |-> 0, flags |-> {"PRESENT"}]]

InitTables ==
  { [tables |-> {}, huge |-> {}, mapped |-> <<>>],
    [tables |-> {TableOf(p) : p \in 0 .. BasePage}, huge |-> {}, mapped |-> <<>>],
    [tables |-> {TableOf(p) : p \in 0 .. BasePage}, huge |-> {},
     mapped |-> PreMapped(BasePage - 1)],
    [tables |-> {TableOf(p) : p \in 0 .. BasePage}, huge |-> {},
     mapped |-> PreMapped(BasePage)],
    [tables |-> {}, huge |-> {TableOf(BasePage)}, mapped |-> <<>>] }

InitPhys ==
  { [f \in AllFrames |-> StalePage],
    [f \in AllFrames |-> IF f % 2 = 0 THEN StalePage ELSE ZeroPage] }

Init ==
  /\ free \in SUBSET Frames
  /\ \E t \in InitTables : tables = t.tables /\ huge = t.huge /\ mapped = t.mapped
  /\ unflushed = {}
  /\ phys \in InitPhys
  /\ pc = "idle"
  /\ call = NoCall
  /\ result = NoResult
  /\ stack = NoStack
  /\ heap = NoHeap
  /\ tops = {}
  /\ helper = "none"
  /\ ptr = 0
  /\ t0 = 0
  /\ ops = <<>>
  /\ slots = <<>>
  /\ mem = <<>>

----------------------------------------------------------------------------
(* Actions *)

\* Stack::new_pinned, lines 37-52: the locals it starts the loop with
EnterCall(via, stack_address, stack_size, flags) ==
  LET s == start_addr(stack_address, stack_size)
      e == end_addr(stack_address, stack_size)
      c == [NoCall EXCEPT !.via = via, !.stack_address = stack_address,
                          !.stack_size = stack_size, !.flags = flags,
                          !.entry_mapped = mapped, !.entry_free = free,
                          !.entry_phys = phys]
  IN IF s = Overflow THEN c
     ELSE [c EXCEPT !.start_addr = s, !.end_addr = e,
                    !.page = containing_address(s),
                    !.end_page = containing_address(e)]

\* where new_pinned goes next: the panic of an overflowing subtraction, the
\* loop over Page::range_inclusive(start_page, end_page), or past an empty range
EnterPc(stack_address, stack_size) ==
  LET s == start_addr(stack_address, stack_size)
      e == end_addr(stack_address, stack_size)
  IN IF s = Overflow THEN "panicked"
     ELSE IF containing_address(s) > containing_address(e) THEN "memset"
     ELSE "alloc"

Enter(via, stack_address, stack_size, flags) ==
  /\ pc = "idle"
  /\ call' = EnterCall(via, stack_address, stack_size, flags)
  /\ pc' = EnterPc(stack_address, stack_size)
  /\ result' = IF pc' = "panicked" THEN Panic ELSE NoResult
  /\ UNCHANGED <<free, tables, huge, mapped, unflushed, phys, stack, heap, tops>>

new_pinned ==
  \E a \in StackAddrs, n \in StackSizes, fl \in CallerFlags : Enter("new_pinned", a, n, fl)

\* Stack::new_user_pinned, lines 87-98
new_user_pinned ==
  \E a \in StackAddrs, n \in StackSizes : Enter("new_user_pinned", a, n, UserFlags)

\* a caller that got its answer calls the same constructor again with the same
\* address, size and flags, nothing having been unmapped or freed in between
Retry ==
  /\ pc = "returned"
  /\ call.via \in {"new_pinned", "new_user_pinned"}
  /\ call.retry < MaxRetries
  /\ call' = [EnterCall(call.via, call.stack_address, call.stack_size, call.flags)
                EXCEPT !.retry = call.retry + 1,
                       !.earlier = call.earlier \o call.done]
  /\ pc' = EnterPc(call.stack_address, call.stack_size)
  /\ result' = NoResult
  /\ UNCHANGED <<free, tables, huge, mapped, unflushed, phys, stack, heap, tops>>

\* lines 55-59: FRAME_ALLOCATOR.allocate_frame().ok_or(FrameAllocationFailed)?
AllocateFrame ==
  LET f == allocate_frame(free)
  IN /\ pc = "alloc"
     /\ IF f = NoFrame
        THEN /\ call' = [call EXCEPT !.alloc_calls = @ + 1, !.failed_at = "alloc",
                                     !.callee_err = FrameAllocationFailed]
             /\ result' = Err(FrameAllocationFailed)
             /\ pc' = "returned"
             /\ free' = UnwindFree(free, call)
             /\ mapped' = UnwindMapped(mapped, call)
        ELSE /\ call' = [call EXCEPT !.alloc_calls = @ + 1, !.frame = f,
                                     !.taken = Append(@, f)]
             /\ free' = free \ {f}
             /\ pc' = "map"
             /\ result' = result
             /\ mapped' = mapped
     /\ UNCHANGED <<tables, huge, unflushed, phys, stack, heap, tops>>

\* lines 61-71: offset_table.map_to(page, frame, flags, &mut FRAME_ALLOCATOR)?
MapTo ==
  LET r == map_to(call.page, call.frame, MapFlags(call.flags))
  IN /\ pc = "map"
     /\ tables' = r.tables
     /\ IF r.err # NoErr
        THEN /\ call' = [call EXCEPT !.map_calls = @ + 1, !.callee_err = r.err,
                           !.failed_at = "map",
                           !.pt_taken = IF r.pt = NoFrame THEN @ ELSE Append(@, r.pt)]
             /\ result' = Err(Propagate(r.err))
             /\ pc' = "returned"
             /\ unflushed' = unflushed
             /\ free' = UnwindFree(r.free, call)
             /\ mapped' = UnwindMapped(r.mapped, call)
        ELSE /\ call' = [call EXCEPT !.map_calls = @ + 1,
                           !.done = Append(@, call.page),
                           !.pt_taken = IF r.pt = NoFrame THEN @ ELSE Append(@, r.pt)]
             /\ unflushed' = unflushed \cup {call.page}
             /\ pc' = "flush"
             /\ result' = result
             /\ free' = r.free
             /\ mapped' = r.mapped
     /\ UNCHANGED <<huge, phys, stack, heap, tops>>

\* line 72: .flush(), then the next page of the range
Flush ==
  /\ pc = "flush"
  /\ unflushed' = FlushPage(unflushed, call.page)
  /\ IF call.page = call.end_page
     THEN pc' = "memset" /\ call' = [call EXCEPT !.flushed = Append(@, call.page)]
     ELSE pc' = "alloc" /\ call' = [call EXCEPT !.page = @ + 1, !.frame = NoFrame,
                                                !.flushed = Append(@, call.page)]
  /\ UNCHANGED <<free, tables, huge, mapped, phys, result, stack, heap, tops>>

\* lines 75-82: memset(start_addr.as_mut_ptr(), 0x00, stack_size); Ok(Self {..})
Memset ==
  LET R == ZeroFillRange(call)
  IN /\ pc = "memset"
     /\ IF \E a \in R : containing_address(a) \notin DOMAIN mapped
        THEN \* a write to an unmapped page faults
             /\ pc' = "panicked"
             /\ result' = Panic
             /\ UNCHANGED <<phys, call, stack>>
        ELSE /\ phys' = WriteZero(R)
             /\ call' = [call EXCEPT !.zeroed = TRUE]
             /\ stack' = [stack_start |-> call.start_addr, stack_size |-> call.stack_size]
             /\ result' = Ok
             /\ pc' = "returned"
     /\ UNCHANGED <<free, tables, huge, mapped, unflushed, heap, tops>>

\* Stack::stack_top, lines 112-120
StackTop ==
  /\ pc = "returned"
  /\ result.kind = "Ok"
  /\ IF stack_top(stack) = Overflow
     THEN pc' = "panicked" /\ tops' = tops
     ELSE pc' = pc /\ tops' = tops \cup {stack_top(stack)}
  /\ UNCHANGED <<free, tables, huge, mapped, unflushed, phys, call, result, stack, heap>>

\* Stack::new_kernel, lines 102-110
new_kernel ==
  \E n \in KernelSizes, p \in HeapPtrs : \E s \in sub_outcomes(p, n) :
    /\ pc = "idle"
    /\ heap' = [base |-> p, size |-> n]
    /\ stack' = [stack_start |-> s, stack_size |-> n]
    /\ call' = [NoCall EXCEPT !.via = "new_kernel", !.stack_size = n,
                              !.entry_mapped = mapped, !.entry_free = free,
                              !.entry_phys = phys]
    /\ result' = Ok
    /\ pc' = "returned"
    /\ UNCHANGED <<free, tables, huge, mapped, unflushed, phys, tops>>

Next ==
  \/ new_pinned /\ UNCHANGED cvars
  \/ new_user_pinned /\ UNCHANGED cvars
  \/ new_kernel /\ UNCHANGED cvars
  \/ Retry /\ UNCHANGED cvars
  \/ AllocateFrame /\ UNCHANGED cvars
  \/ MapTo /\ UNCHANGED cvars
  \/ Flush /\ UNCHANGED cvars
  \/ Memset /\ UNCHANGED cvars
  \/ StackTop /\ UNCHANGED cvars

Spec == Init /\ [][Next]_vars

----------------------------------------------------------------------------
(* StackHelper over the top of a stack *)

\* StackHelper::new(&mut top), lines 128-130, on a cell holding stack_top()
StackHelper_new ==
  /\ helper = "none"
  /\ \E t \in tops : ptr' = t /\ t0' = t
  /\ helper' = "live"
  /\ UNCHANGED <<svars, ops, slots, mem>>

\* StackHelper::skip_by(by), lines 132-134
SkipBy ==
  \E by \in SkipAmounts :
    /\ helper = "live"
    /\ Len(ops) < MaxOps
    /\ IF skip_by(ptr, by) = Overflow
       THEN /\ helper' = "panicked"
            /\ ops' = Append(ops, [op |-> "skip_by", by |-> by, ok |-> FALSE])
            /\ ptr' = ptr
       ELSE /\ helper' = helper
            /\ ops' = Append(ops, [op |-> "skip_by", by |-> by, ok |-> TRUE])
            /\ ptr' = skip_by(ptr, by)
    /\ UNCHANGED <<svars, t0, slots, mem>>

\* StackHelper::offset::<T>(), lines 136-140
Offset ==
  \E sz \in SlotSizes :
    /\ helper = "live"
    /\ Len(ops) < MaxOps
    /\ IF skip_by(ptr, sz) = Overflow
       THEN /\ helper' = "panicked"
            /\ ops' = Append(ops, [op |-> "offset", by |-> sz, ok |-> FALSE])
            /\ ptr' = ptr
            /\ slots' = slots
       ELSE /\ helper' = helper
            /\ ops' = Append(ops, [op |-> "offset", by |-> sz, ok |-> TRUE])
            /\ ptr' = skip_by(ptr, sz)
            /\ slots' = Append(slots, [lo |-> offset(ptr, ptr'), size |-> sz,
                                       at |-> Len(ops) + 1, written |-> FALSE])
    /\ UNCHANGED <<svars, t0, mem>>

\* the caller stores a value through the reference offset::<T>() just returned;
\* the value stored in the i-th slot is i
WriteSlot ==
  LET i == Len(slots)
      R == slots[i].lo .. slots[i].lo + slots[i].size - 1
  IN /\ helper = "live"
     /\ i > 0
     /\ ~slots[i].written
     /\ mem' = [a \in DOMAIN mem \cup R |-> IF a \in R THEN i ELSE mem[a]]
     /\ slots' = [slots EXCEPT ![i].written = TRUE]
     /\ UNCHANGED <<svars, helper, ptr, t0, ops>>

\* one environment: every frame free and stale, nothing mapped yet
InitCursor ==
  /\ Init
  /\ free = Frames
  /\ tables # {} /\ huge = {} /\ mapped = <<>>
  /\ phys = [f \in AllFrames |-> StalePage]

NextCursor ==
  \/ new_pinned /\ UNCHANGED cvars
  \/ new_user_pinned /\ UNCHANGED cvars
  \/ AllocateFrame /\ UNCHANGED cvars
  \/ MapTo /\ UNCHANGED cvars
  \/ Flush /\ UNCHANGED cvars
  \/ Memset /\ UNCHANGED cvars
  \/ new_kernel /\ UNCHANGED cvars
  \/ StackTop /\ UNCHANGED cvars
  \/ StackHelper_new
  \/ SkipBy
  \/ Offset
  \/ WriteSlot

SpecCursor == InitCursor /\ [][NextCursor]_vars


----------------------------------------------------------------------------
(* Vocabulary of the properties *)

IsPinned == call.via \in {"new_pinned", "new_user_pinned"}
Returned == pc = "returned"
SeqSet(q) == {q[i] : i \in 1 .. Len(q)}
BaseFlags == {"PRESENT", "NO_EXECUTE", "WRITABLE"}

\* the pages holding a byte of [stack_address - (stack_size - 1), stack_address]
RangePages(c) ==
  {a \div PageSize : a \in c.stack_address - (c.stack_size - 1) .. c.stack_address}
FirstPage(c) == (c.stack_address - (c.stack_size - 1)) \div PageSize

\* the byte read at a virtual address of a mapped page
ReadByte(a) == phys[mapped[a \div PageSize].frame][a % PageSize]

----------------------------------------------------------------------------
\* C1: a new_pinned call of a positive size whose frame acquisitions and map_to
\* calls all succeed does not panic and returns Ok, and then every page holding
\* a byte of [stack_address - (stack_size - 1), stack_address] is mapped with
\* exactly PRESENT | NO_EXECUTE | WRITABLE | flags to a frame the allocator
\* handed out during the call, no two pages to the same frame.
C1_WholeRangeMapped ==
  /\ (IsPinned /\ call.stack_size > 0) => pc # "panicked"
  /\ (IsPinned /\ Returned /\ call.stack_size > 0 /\ call.failed_at = "none") =>
       /\ result.kind = "Ok"
       /\ \A p \in RangePages(call) :
            /\ p \in DOMAIN mapped
            /\ mapped[p].flags = BaseFlags \cup call.flags
            /\ mapped[p].frame \in call.entry_free \ free
            /\ mapped[p].frame \in SeqSet(call.taken)
       /\ \A p, q \in RangePages(call) :
            p # q => mapped[p].frame # mapped[q].frame

\* a three-page stack was built
C1_Witness ==
  /\ IsPinned /\ Returned /\ result.kind = "Ok"
  /\ Cardinality(RangePages(call)) = 3
  /\ Len(call.done) = 3

\* C2: a failed frame acquisition or map_to ends the call at once with Err
\* carrying the failure as reported (FrameAllocationFailed for an exhausted
\* allocator); no later page is mapped, no further frame is asked for, nothing
\* is retried, memory is not zero-filled, and Ok is never returned after it.
C2_FailureReturnedAtOnce ==
  IsPinned =>
    /\ result.kind = "Ok" => call.failed_at = "none"
    /\ call.failed_at # "none" =>
         /\ Returned
         /\ result.kind = "Err"
         /\ result.err = call.callee_err
         /\ ~call.zeroed
         /\ phys = call.entry_phys
         /\ call.alloc_calls = Len(call.done) + 1
         /\ DOMAIN mapped = DOMAIN call.entry_mapped \cup SeqSet(call.done)
         /\ \A i \in 1 .. Len(call.done) : call.done[i] = FirstPage(call) + i - 1
    /\ call.failed_at = "alloc" =>
         /\ result.err = FrameAllocationFailed
         /\ call.map_calls = Len(call.done)
         /\ Len(call.taken) = Len(call.done)
    /\ call.failed_at = "map" =>
         /\ call.map_calls = Len(call.done) + 1
         /\ Len(call.taken) = Len(call.done) + 1

\* map_to refused the 2nd of 3 pages because it was mapped already
C2_Witness ==
  /\ IsPinned /\ Returned
  /\ Cardinality(RangePages(call)) = 3
  /\ call.failed_at = "map"
  /\ Len(call.done) = 1
  /\ result.err.tag = "PageAlreadyMapped"

\* C3: when a call fails, the pages it mapped before the failure are still
\* mapped to the same frames with the same flags as it returns, and no frame
\* it took is back in the allocator.
C3_NoRollback ==
  (IsPinned /\ Returned /\ result.kind = "Err") =>
    /\ \A i \in 1 .. Len(call.done) :
         /\ call.done[i] \in DOMAIN mapped
         /\ mapped[call.done[i]] =
              [frame |-> call.taken[i], flags |-> BaseFlags \cup call.flags]
    /\ \A f \in SeqSet(call.taken) \cup SeqSet(call.pt_taken) : f \notin free

\* the call failed at its 3rd page, two pages stay mapped
C3_Witness ==
  /\ IsPinned /\ Returned /\ result.kind = "Err"
  /\ Len(call.done) = 2
  /\ \A i \in 1 .. 2 : call.done[i] \in DOMAIN mapped

\* C4: after Ok every byte of [stack_start, stack_start + stack_size) reads as
\* zero whatever the frames held; memory is written by one pass, after the
\* last page of the range is mapped, and only inside that byte range.
C4_ZeroFill ==
  IsPinned =>
    /\ (Returned /\ result.kind = "Ok") =>
         \A a \in stack.stack_start .. stack.stack_start + stack.stack_size - 1 :
           a \div PageSize \in DOMAIN mapped /\ ReadByte(a) = 0
    /\ ~call.zeroed => phys = call.entry_phys
    /\ call.zeroed =>
         /\ Returned /\ result.kind = "Ok"
         /\ SeqSet(call.done) = RangePages(call)
         /\ \A f \in AllFrames, o \in 0 .. PageSize - 1 :
              phys[f][o] # call.entry_phys[f][o] =>
                \E a \in call.start_addr .. call.start_addr + call.stack_size - 1 :
                  mapped[a \div PageSize].frame = f /\ a % PageSize = o

\* a three-page stack was built on a frame that held stale data
C4_Witness ==
  /\ IsPinned /\ Returned /\ result.kind = "Ok"
  /\ Len(call.done) = 3
  /\ \E i \in 1 .. 3 : call.entry_phys[call.taken[i]] = StalePage


\* C5: for a kernel stack over the heap allocation [p, p + size), every address
\* stack_top() - d with 0 < d <= size lies inside [p, p + size).
C5_KernelStackInsideAllocation ==
  (call.via = "new_kernel" /\ tops # {}) =>
    \A t \in tops, d \in 1 .. stack.stack_size :
      heap.base <= t - d /\ t - d < heap.base + heap.size

\* C6: stack_top() of a Stack built by new_pinned, new_user_pinned or
\* new_kernel returns stack_start + stack_size, the same address at every
\* call, the requested size above stack_start, and the call changes neither
\* the Stack nor the mappings nor the frame allocator.
C6_TopValue ==
  /\ Cardinality(tops) <= 1
  /\ \A t \in tops :
       /\ t = stack.stack_start + stack.stack_size
       /\ t - stack.stack_start = call.stack_size
  /\ (Returned /\ result.kind = "Ok") => stack_top(stack) # Overflow

C6_TopIsPure ==
  (tops' # tops \/ (Returned /\ result.kind = "Ok" /\ pc' = "panicked")) =>
     UNCHANGED <<free, tables, huge, mapped, unflushed, phys, call, result, stack, heap>>

C6_StackTop == []C6_TopValue /\ [][C6_TopIsPure]_vars

\* stack_top() was called on a pinned user stack
C6_Witness ==
  /\ call.via = "new_user_pinned" /\ tops = {stack.stack_start + call.stack_size}
  /\ call.stack_size = MaxStackPages * PageSize


\* C9: new_pinned with stack_size = 0 neither panics nor underflows, maps no
\* page and takes no frame, and returns a failure or an empty region; with
\* stack_size = PageSize it maps the pages of the region when nothing fails.
C9_ZeroSizeHandled ==
  /\ (IsPinned /\ call.stack_size = 0) =>
       /\ pc # "panicked"
       /\ result.kind # "Panic"
       /\ call.taken = <<>> /\ call.done = <<>>
  /\ (IsPinned /\ call.stack_size = PageSize /\ Returned /\ call.failed_at = "none") =>
       /\ result.kind = "Ok"
       /\ RangePages(call) \subseteq DOMAIN mapped

\* C10: new_user_pinned(address, size) starts exactly the call
\* new_pinned(address, size, USER_ACCESSIBLE) starts, so every page it maps
\* carries PRESENT | NO_EXECUTE | WRITABLE | USER_ACCESSIBLE; a page mapped by
\* new_pinned carries USER_ACCESSIBLE exactly when the caller's flags do.
C10_Flags ==
  IsPinned =>
    /\ call.via = "new_user_pinned" =>
         \A p \in SeqSet(call.done) :
           mapped[p].flags = BaseFlags \cup {"USER_ACCESSIBLE"}
    /\ \A p \in SeqSet(call.done) :
         "USER_ACCESSIBLE" \in mapped[p].flags <=> "USER_ACCESSIBLE" \in call.flags

C10_SameEntry ==
  (pc = "idle" /\ call'.via = "new_user_pinned") =>
     /\ call' = [EnterCall("new_pinned", call'.stack_address, call'.stack_size,
                           {"USER_ACCESSIBLE"}) EXCEPT !.via = "new_user_pinned"]
     /\ pc' = EnterPc(call'.stack_address, call'.stack_size)
     /\ UNCHANGED <<free, tables, huge, mapped, unflushed, phys, stack, heap, tops>>

C10_UserIsPinnedWithUserFlag == []C10_Flags /\ [][C10_SameEntry]_vars

\* a user stack of three pages was built
C10_Witness ==
  /\ call.via = "new_user_pinned" /\ Returned /\ result.kind = "Ok"
  /\ Len(call.done) = 3


----------------------------------------------------------------------------
(* Vocabulary of the StackHelper properties *)

RECURSIVE Consumed(_, _)
\* the bytes the first n calls took from the cell
Consumed(q, n) ==
  IF n = 0 THEN 0
  ELSE Consumed(q, n - 1) + (IF q[n].ok THEN q[n].by ELSE 0)

SlotBytes(sl) == sl.lo .. sl.lo + sl.size - 1
OnlyOffsets(sz) == \A i \in 1 .. Len(ops) : ops[i].op = "offset" /\ ops[i].by = sz

\* C7: on a cell holding stack_top() of a Stack whose size is a positive
\* multiple of 8, up to stack_size / 8 successive offset::<u64>() calls do not
\* panic, each yields a slot [q, q + 8) inside [stack_start, stack_top()], the
\* cell stays inside [stack_start, stack_top()], and after stack_size / 8
\* calls it equals stack_start.
C7_U64SlotsFillTheStack ==
  (/\ helper # "none"
   /\ stack.stack_size > 0 /\ stack.stack_size % SizeOfU64 = 0
   /\ OnlyOffsets(SizeOfU64)
   /\ Len(ops) <= stack.stack_size \div SizeOfU64) =>
     /\ helper = "live"
     /\ t0 = stack.stack_start + stack.stack_size
     /\ Len(slots) = Len(ops)
     /\ \A i \in 1 .. Len(slots) :
          /\ stack.stack_start <= slots[i].lo
          /\ slots[i].lo + SizeOfU64 <= stack.stack_start + stack.stack_size
     /\ stack.stack_start <= ptr /\ ptr <= stack.stack_start + stack.stack_size
     /\ Len(ops) = stack.stack_size \div SizeOfU64 => ptr = stack.stack_start

\* the largest kernel stack was filled with u64 slots
C7_Witness ==
  /\ helper = "live"
  /\ stack.stack_size = MaxKernelSlots * SizeOfU64
  /\ OnlyOffsets(SizeOfU64)
  /\ Len(ops) = MaxKernelSlots
  /\ ptr = stack.stack_start

\* C8: while no call has panicked the cell holds t minus the bytes consumed
\* (k reserves of u32 consume 4k); a call panics only when its byte count
\* exceeds the cell, never because of the stack's bounds; the slot of call i
\* is [t - s_i, t - s_(i-1)); slots of distinct calls are disjoint; and a value
\* stored in a slot is read back unchanged after later calls and stores.
C8_ReverseBumpCursor ==
  helper # "none" =>
    /\ ptr = t0 - Consumed(ops, Len(ops))
    /\ OnlyOffsets(SizeOfU32) /\ helper = "live" => t0 - ptr = SizeOfU32 * Len(ops)
    /\ \A i \in 1 .. Len(ops) :
         ~ops[i].ok <=> ops[i].by > t0 - Consumed(ops, i - 1)
    /\ helper = "panicked" <=> (ops # <<>> /\ ~ops[Len(ops)].ok)
    /\ \A i \in 1 .. Len(slots) :
         /\ slots[i].lo = t0 - Consumed(ops, slots[i].at)
         /\ slots[i].lo + slots[i].size = t0 - Consumed(ops, slots[i].at - 1)
         /\ slots[i].written => \A a \in SlotBytes(slots[i]) : mem[a] = i
    /\ \A i, j \in 1 .. Len(slots) :
         i # j => SlotBytes(slots[i]) \cap SlotBytes(slots[j]) = {}

\* the cursor went below stack_start with two stored slots behind it
C8_Witness ==
  /\ helper = "live"
  /\ ptr < stack.stack_start
  /\ Len(slots) >= 2
  /\ slots[1].written /\ slots[Len(slots)].written
  /\ \E i \in 1 .. Len(ops) : ops[i].op = "skip_by"


----------------------------------------------------------------------------
\* C11: within one new_pinned call pages are taken in strictly increasing
\* address order, each page is acquired, then mapped, then flushed, the flush
\* of a page precedes the acquisition and the mapping of the next one, so at
\* most one page is ever mapped and not yet flushed, and no page is mapped
\* twice.
C11_PerPageOrder ==
  IsPinned =>
    /\ \A i \in 1 .. Len(call.done) - 1 : call.done[i + 1] = call.done[i] + 1
    /\ \A i, j \in 1 .. Len(call.done) : i # j => call.done[i] # call.done[j]
    /\ Cardinality(unflushed) <= 1
    /\ pc = "flush" =>
         /\ unflushed = {call.page}
         /\ call.done = Append(call.flushed, call.page)
         /\ Len(call.taken) = Len(call.done)
    /\ pc # "flush" => unflushed = {} /\ call.flushed = call.done
    /\ pc = "alloc" => Len(call.taken) = Len(call.done)
    /\ pc = "map" =>
         /\ Len(call.taken) = Len(call.done) + 1
         /\ call.page \notin SeqSet(call.done)
         /\ \A p \in SeqSet(call.done) : p < call.page

\* the third page of a range is mapped and waits for its flush
C11_Witness ==
  /\ IsPinned /\ pc = "flush"
  /\ Len(call.done) = 3 /\ Len(call.flushed) = 2


\* C12: a successful new_pinned(address, size) records stack_start =
\* address - size + 1, so stack_top() is address + 1; the pages it maps are
\* exactly those holding a byte of [address - size + 1, address]; for size a
\* positive multiple of the page size P it takes size / P data frames when
\* address mod P = P - 1 and size / P + 1 for every other address.
C12_InclusiveTopAddress ==
  (IsPinned /\ Returned /\ result.kind = "Ok" /\ call.stack_size > 0) =>
    /\ stack.stack_start = call.stack_address - call.stack_size + 1
    /\ \A t \in tops : t = call.stack_address + 1
    /\ SeqSet(call.done) = RangePages(call)
    /\ DOMAIN mapped \ DOMAIN call.entry_mapped = RangePages(call)
    /\ Len(call.taken) =
         IF call.stack_address % PageSize = PageSize - 1
         THEN call.stack_size \div PageSize
         ELSE call.stack_size \div PageSize + 1

\* a stack at a page-aligned address took one frame more than its size in pages
C12_Witness ==
  /\ IsPinned /\ Returned /\ result.kind = "Ok"
  /\ call.stack_address % PageSize = 0
  /\ call.stack_size = MaxStackPages * PageSize
  /\ Len(call.taken) = MaxStackPages + 1
  /\ tops = {call.stack_address + 1}

\* C13: the frame of a page is taken before the page is mapped: a call that
\* failed in map_to at its k-th page has taken k data frames and mapped k - 1
\* pages, and the k-th frame is neither free nor bound to any page; a call
\* that failed in allocate_frame at its k-th page has taken k - 1 frames and
\* mapped k - 1 pages.
C13_FrameOfFailedMapIsLost ==
  (IsPinned /\ Returned /\ result.kind = "Err") =>
    LET k == call.page - FirstPage(call) + 1
    IN /\ Len(call.done) = k - 1
       /\ call.failed_at = "map" =>
            /\ Len(call.taken) = k
            /\ call.frame = call.taken[k]
            /\ call.frame \in call.entry_free
            /\ call.frame \notin free
            /\ \A p \in DOMAIN mapped : mapped[p].frame # call.frame
       /\ call.failed_at = "alloc" => Len(call.taken) = k - 1
       /\ \A i \in 1 .. Len(call.done) : mapped[call.done[i]].frame = call.taken[i]

\* map_to failed at the 2nd page: two frames taken, one page mapped
C13_Witness ==
  /\ IsPinned /\ Returned /\ call.failed_at = "map"
  /\ Len(call.taken) = 2 /\ Len(call.done) = 1
  /\ call.taken[2] \notin free


\* a call made again on a range of which an earlier call mapped the first page
IsRetryOfMapped == IsPinned /\ call.retry > 0 /\ call.earlier # <<>>

\* C14 as stated: a second new_pinned call with the same address and size,
\* made after a failure at page k > 1 or after a success, fails at the first
\* page with the page-already-mapped error after taking one more frame, maps
\* no page and leaves the mappings and their contents unchanged.
C14_RetryFailsPageAlreadyMapped ==
  (IsRetryOfMapped /\ Returned) =>
    /\ result.kind = "Err"
    /\ result.err.tag = "PageAlreadyMapped"
    /\ call.page = FirstPage(call)
    /\ Len(call.taken) = 1
    /\ call.done = <<>>
    /\ mapped = call.entry_mapped
    /\ phys = call.entry_phys

\* C14, amended: such a second call never succeeds and never gets past the
\* first page of the range; it maps no page and leaves the mappings and their
\* contents unchanged; when the allocator still has a frame it takes exactly
\* one and fails with the page-already-mapped error carrying that frame, and
\* when the allocator is exhausted it takes none and fails with the
\* frame-allocation error.
C14_RetryFailsAtFirstPage ==
  IsRetryOfMapped =>
    /\ pc \in {"alloc", "map", "returned"}
    /\ call.page = FirstPage(call)
    /\ FirstPage(call) \in SeqSet(call.earlier)
    /\ call.done = <<>>
    /\ mapped = call.entry_mapped
    /\ phys = call.entry_phys
    /\ Returned =>
         /\ result.kind = "Err"
         /\ call.pt_taken = <<>>
         /\ IF call.entry_free # {}
            THEN /\ result.err = PageAlreadyMapped(call.taken[1])
                 /\ Len(call.taken) = 1
                 /\ call.failed_at = "map"
                 /\ free = call.entry_free \ {call.taken[1]}
            ELSE /\ result.err = FrameAllocationFailed
                 /\ call.taken = <<>>
                 /\ call.failed_at = "alloc"
                 /\ free = {}

\* the call after a failure at the 2nd page of a longer range was rejected by
\* the mapper with one more frame gone
C14_Witness ==
  /\ IsRetryOfMapped /\ Returned
  /\ call.retry = 1 /\ Len(call.earlier) = 1
  /\ Cardinality(RangePages(call)) > 1
  /\ result.err.tag = "PageAlreadyMapped"
  /\ Len(call.taken) = 1

====
